---- MODULE Spec2Model ----
(***************************************************************************)
(* The Zaku_Cam landing and detection pipeline.                            *)
(*                                                                         *)
(*   receive_cam_zip.py  the receiver: scans the incoming directory and    *)
(*                       lands each archive as a batch directory under the *)
(*                       processed root;                                   *)
(*   worker.py           the worker: picks the latest ready batch under    *)
(*                       the data root (the same directory as the          *)
(*                       receiver's processed root), classifies its        *)
(*                       images, appends the rows to the result log, moves *)
(*                       a positive batch to the events root and uploads   *)
(*                       the positive images.                              *)
(*                                                                         *)
(* The two programs are separate processes that share only the file        *)
(* system; each action below is one step of one of them, so that TLC       *)
(* explores every interleaving of their file-system operations.            *)
(*                                                                         *)
(* A directory is a function from the relative paths of the files below it *)
(* (sequences of path components) to their modification times.  The files  *)
(* directly in a directory are its paths of length one.                    *)
(***************************************************************************)
EXTENDS Integers, Sequences, FiniteSets, TLC

\* ------------------------------------------------------------------------
\* Bounds of the model
\* ------------------------------------------------------------------------

\* The clock runs from 1 to MaxTime.  One unit is the stability window (15 s);
\* the sleeps of the two loops (10 s) are shorter than a unit, so a sleep may
\* end before or after the next tick of the clock.
MaxTime == 5

\* How many archives the transfer channel delivers in one run.
MaxDeliveries == 2

\* The longest archive (in entries) that SpecLanding draws.
MaxEntries == 2

\* The worker starts no cycle once the result log holds this many lines.
MaxLog == 6

\* The time at which the runs of the worker alone start.
DetectStart == 3

\* How many times the append to the result log fails in one run.
MaxFailures == 2

\* The receiver is killed and started again at most this many times.
MaxCrashes == 2

\* The /api/cont/enable requests of a run.
MaxRequests == 3

\* ------------------------------------------------------------------------
\* Configuration of the two programs, in clock units
\* ------------------------------------------------------------------------

\* worker.py:18 (15 s)
STABLE_SEC == 1
\* worker.py:21
MIN_IMAGES == 1
\* worker.py:27
UPLOAD_RETRIES == 3
\* receive_cam_zip.py:25 (15 s)
MTIME_STABLE_SEC == 1

IMG_EXTS == {".jpg", ".jpeg", ".png"}
UPLOAD_MARK_EXT == ".upl"

\* ------------------------------------------------------------------------
\* Names
\* ------------------------------------------------------------------------

\* Archive labels: <label>.zip lands as the batch directory <label>.
Labels == {"N", "P"}

\* "no folder", "no archive in flight"
None == "none"
\* An absent file in the incoming directory.
NoFile == 0

\* The temporary directory tempfile.TemporaryDirectory(dir=PROCESSED) makes:
\* a subdirectory of the processed root, like the batch directories.
TmpDir == "tmpdir"

\* The temporary directories that killed receivers left under PROCESSED
\* (each has a name of its own; they are kept together under one key).
StaleDir == "stale"

\* os.path.join(tmpdir, "extract"), below the processed root.
DestPath == <<"processed", TmpDir, "extract">>

EmptyDir == [p \in {} |-> 0]

\* Path.suffix of a file name.
Suffix(name) ==
    CASE name \in {"p.jpg", "n.jpg"} -> ".jpg"
      [] name \in {"x.png", "e.png"} -> ".png"
      [] name = "q.JPG" -> ".JPG"
      [] name = "t.txt" -> ".txt"
      [] name \in {"p.jpg.upl", "n.jpg.upl", "x.png.upl", "q.JPG.upl",
                    "e.png.upl"} -> ".upl"
      [] OTHER -> ""

\* str.lower() on the suffixes above.
Lower(s) == IF s = ".JPG" THEN ".jpg" ELSE s

\* p.with_suffix(p.suffix + UPLOAD_MARK_EXT): the sidecar's name.
MarkName(name) ==
    CASE name = "p.jpg" -> "p.jpg.upl"
      [] name = "n.jpg" -> "n.jpg.upl"
      [] name = "x.png" -> "x.png.upl"
      [] name = "e.png" -> "e.png.upl"
      [] name = "q.JPG" -> "q.JPG.upl"
      [] OTHER -> "other.upl"

\* sorted(): the order of the file names.
NameOrder == <<"e.png", "n.jpg", "p.jpg", "q.JPG", "t.txt", "x.png">>

\* The archives of the pipeline: what the camera side zips under each label
\* (flat file names, app.py's _zip_and_cleanup).
StdZips ==
    [l \in Labels |->
        IF l = "N"
        THEN [entries |-> << <<"n.jpg">>, <<"x.png">> >>, corrupt |-> FALSE]
        ELSE [entries |-> << <<"p.jpg">>, <<"n.jpg">> >>, corrupt |-> FALSE]]

\* Entry names SpecLanding draws archives from: plain, non-image, nested,
\* escaping upwards, ".." that stays inside, absolute.
EntryUniverse ==
    { <<"p.jpg">>, <<"t.txt">>, <<"d", "n.jpg">>, <<"..", "n.jpg">>,
      <<"d", "..", "n.jpg">>, <<"/", "x.png">> }

RECURSIVE SeqsUpTo(_, _)
SeqsUpTo(S, n) ==
    IF n = 0 THEN {<<>>}
    ELSE LET shorter == SeqsUpTo(S, n - 1)
         IN shorter \cup {Append(s, x) : s \in {t \in shorter : Len(t) = n - 1}, x \in S}

ArchiveSet ==
    [entries : SeqsUpTo(EntryUniverse, MaxEntries), corrupt : BOOLEAN]

\* The /api/cont/enable requests; the cont_worker thread that a request
\* starts goes by the number of the request.
Requests == 1..MaxRequests

\* ------------------------------------------------------------------------
\* State
\* ------------------------------------------------------------------------

VARIABLES
    now,        \* the wall clock
    zips,       \* label -> the archive the camera side made under that label
    cfg,        \* the worker's upload configuration (UPLOAD_ENABLED, GAS_UPLOAD_URL)
    delivered,  \* archives delivered so far (bounded by MaxDeliveries)
    crashes,    \* times the receiver was killed and started again (bounded by MaxCrashes)
    CONT_RUNNING, \* app.py: the threading.Event of the continuous capture
    req,        \* app.py: request -> where its cont_enable handler is
    cw,         \* app.py: request -> where the cont_worker thread it started is
    running,    \* the worker's _running flag
    incoming,   \* INCOMING: label -> mtime of <label>.zip, NoFile when absent
    data,       \* PROCESSED = DATA_ROOT: subdirectory name -> directory
    events,     \* EVENTS_ROOT: <<name, stamp>> -> directory
    log,        \* the result log (CSV): sequence of rows
    disk,       \* STATE_PATH, the persisted processing state
    drive,      \* the remote sink: <<label, image>> -> successful uploads
    calls,      \* how many times the upload helper was started
    errs,       \* how many [ERROR] lines the worker wrote to stderr
    rpc,        \* receiver: position
    rZip,       \* receiver: archive process_one_zip is working on
    rIdx,       \* receiver: next member extractall writes
    rlog,       \* receiver: last line of LOGFILE
    wpc,        \* worker: position
    state,      \* worker: the in-memory processing state
    wFolder,    \* worker: folder the cycle selected
    wNewest,    \* worker: newest_m of the cycle
    wCount,     \* worker: count of the cycle
    wRows,      \* worker: rows
    wHas,       \* worker: folder_has_person
    wPersons,   \* worker: person_imgs
    wDst,       \* worker: dst returned by move_folder
    wIdx,       \* worker: position in person_imgs
    wAttempt,   \* worker: attempt of the running upload
    wUploaded,  \* worker: `uploaded`, the uploads of the cycle that returned True
    wWait,      \* worker: the seconds of the last time.sleep of upload_image_to_drive
    wlog        \* worker: last line of its output (DEBUG=1)

fsVars == <<incoming, data, events, log, disk, drive, calls, errs>>
recvVars == <<rpc, rZip, rIdx, rlog>>
workVars == <<wpc, state, wFolder, wNewest, wCount, wRows, wHas, wPersons,
              wDst, wIdx, wAttempt, wUploaded, wWait, wlog>>
appVars == <<CONT_RUNNING, req, cw>>
envVars == <<zips, cfg, delivered, crashes, running, appVars>>
vars == <<now, envVars, fsVars, recvVars, workVars>>

\* ------------------------------------------------------------------------
\* Directories
\* ------------------------------------------------------------------------

AddFile(dir, p, m) ==
    [q \in DOMAIN dir \cup {p} |-> IF q = p THEN m ELSE dir[q]]

\* A directory tree with every path put below `prefix`.
Nest(dir, prefix) ==
    [q \in {prefix \o p : p \in DOMAIN dir} |->
        dir[SubSeq(q, Len(prefix) + 1, Len(q))]]

\* The subtree of `dir` below its subdirectory `prefix`.
Below(dir, prefix) ==
    [q \in {SubSeq(p, Len(prefix) + 1, Len(p)) :
              p \in {r \in DOMAIN dir :
                       Len(r) > Len(prefix) /\ SubSeq(r, 1, Len(prefix)) = prefix}}
       |-> dir[prefix \o q]]

Merge(d1, d2) ==
    [q \in DOMAIN d1 \cup DOMAIN d2 |-> IF q \in DOMAIN d2 THEN d2[q] ELSE d1[q]]

Without(root, name) == [k \in DOMAIN root \ {name} |-> root[k]]

With(root, name, dir) ==
    [k \in DOMAIN root \cup {name} |-> IF k = name THEN dir ELSE root[k]]

\* ------------------------------------------------------------------------
\* receive_cam_zip.py
\* ------------------------------------------------------------------------

\* os.path.realpath(os.path.join(base, filename)): an absolute filename
\* replaces the base, ".." drops the last component.
RECURSIVE Resolve(_, _)
Resolve(base, comps) ==
    IF comps = <<>> THEN base
    ELSE LET c == Head(comps)
         IN IF c = "/" THEN Resolve(<<>>, Tail(comps))
            ELSE IF c = ".."
                 THEN Resolve(IF base = <<>> THEN <<>>
                              ELSE SubSeq(base, 1, Len(base) - 1), Tail(comps))
                 ELSE Resolve(Append(base, c), Tail(comps))

\* target_path.startswith(realpath(dest_dir) + os.sep) or target_path == dest
SafeTarget(target, dest) ==
    \/ /\ Len(target) > Len(dest)
       /\ SubSeq(target, 1, Len(dest)) = dest
    \/ target = dest

\* AllMembersSafe with the test made on the first member only.
AllMembersSafe_FirstOnly(entries) ==
    entries = <<>> \/ SafeTarget(Resolve(DestPath, entries[1]), DestPath)

\* safe_extract's loop: no member raises.
AllMembersSafe(entries) ==
    \A i \in 1..Len(entries) : SafeTarget(Resolve(DestPath, entries[i]), DestPath)

\* ExtractPath with every member written under its base name.
ExtractPath_Basename(filename) == <<filename[Len(filename)]>>

\* Where ZipFile.extractall writes a member below dest_dir: the member's name
\* without its "/", "." and ".." components.
ExtractPath(filename) ==
    SelectSeq(filename, LAMBDA c : c \notin {"/", "..", "."})

\* DuplicateBatch with the guard lost.
DuplicateBatch_Never(root, name) == FALSE

\* os.path.isdir(final_dir): the duplicate guard of process_one_zip.
DuplicateBatch(root, name) == name \in DOMAIN root

\* Whether the open and integrity check of process_one_zip pass.
ZipReadable(zip) == ~zip.corrupt

Tick ==
    /\ now < MaxTime
    /\ now' = now + 1
    /\ UNCHANGED <<envVars, fsVars, recvVars, workVars>>

\* The transfer channel puts <label>.zip into the incoming directory.
Deliver(l) ==
    /\ delivered < MaxDeliveries
    /\ incoming[l] = NoFile
    /\ incoming' = [incoming EXCEPT ![l] = now]
    /\ delivered' = delivered + 1
    /\ UNCHANGED <<now, zips, cfg, crashes, running, appVars, data, events, log, disk, drive, calls,
                   errs, recvVars, workVars>>

\* main, lines 72-93: the scan reaches an archive whose mtime is stable and
\* calls process_one_zip on it.  (The scan takes `now` when it starts and
\* passes over the entries that are not stable; an entry it passes over is
\* met again by the next scan, ten seconds later.)
RScan(l) ==
    /\ rpc = "scan"
    /\ incoming[l] # NoFile
    /\ ~(now - incoming[l] < MTIME_STABLE_SEC)
    /\ rpc' = "process"
    /\ rZip' = l
    /\ UNCHANGED <<now, envVars, fsVars, rIdx, rlog, workVars>>

\* process_one_zip, lines 39-51: the duplicate guard, else the temporary
\* directory and its "extract" subdirectory.
RBegin ==
    /\ rpc = "process"
    /\ IF DuplicateBatch(data, rZip)
       THEN /\ incoming' = [incoming EXCEPT ![rZip] = NoFile]
            /\ rlog' = <<"duplicate", rZip>>
            /\ rpc' = "scan"
            /\ rZip' = None
            /\ UNCHANGED data
       ELSE /\ data' = With(data, TmpDir, EmptyDir)
            /\ rpc' = "open"
            /\ UNCHANGED <<incoming, rlog, rZip>>
    /\ UNCHANGED <<now, envVars, events, log, disk, drive, calls, errs, rIdx, workVars>>

\* LeftInPlace with the failed archive deleted.
LeftInPlace_Deleted(inc, name) == [inc EXCEPT ![name] = NoFile]

\* main, lines 94-99: the handlers log the failure and keep the archive.
LeftInPlace(inc, name) == inc

\* process_one_zip, lines 52-58 and safe_extract's loop: a corrupted archive
\* or an unsafe member raises; the `with` removes the temporary directory and
\* main's handler logs the failure.
ROpen ==
    /\ rpc = "open"
    /\ IF ZipReadable(zips[rZip]) /\ AllMembersSafe(zips[rZip].entries)
       THEN /\ rpc' = "extract"
            /\ rIdx' = 1
            /\ UNCHANGED <<data, rlog, rZip, incoming>>
       ELSE /\ data' = Without(data, TmpDir)
            /\ incoming' = LeftInPlace(incoming, rZip)
            /\ rlog' = <<"failed", rZip>>
            /\ rpc' = "scan"
            /\ rZip' = None
            /\ rIdx' = 0
    /\ UNCHANGED <<now, envVars, events, log, disk, drive, calls, errs, workVars>>

\* process_one_zip with extractall (line 36) or shutil.move (line 61)
\* raising: the `with` removes the temporary directory and what was
\* extracted into it, and main's handler logs the failure.
RFails ==
    /\ rpc \in {"extract", "move"}
    /\ data' = Without(data, TmpDir)
    /\ incoming' = LeftInPlace(incoming, rZip)
    /\ rlog' = <<"failed", rZip>>
    /\ rpc' = "scan"
    /\ rZip' = None
    /\ rIdx' = 0
    /\ UNCHANGED <<now, envVars, events, log, disk, drive, calls, errs, workVars>>

\* RExtract with the members written straight into the final batch directory
\* (no temporary directory, no rename).
RExtract_InPlace ==
    /\ rpc = "extract"
    /\ IF rIdx > Len(zips[rZip].entries)
       THEN /\ rpc' = "move"
            /\ rIdx' = 0
            /\ UNCHANGED data
       ELSE /\ data' = With(data, rZip,
                            AddFile(IF rZip \in DOMAIN data THEN data[rZip] ELSE EmptyDir,
                                    ExtractPath(zips[rZip].entries[rIdx]), now))
            /\ rIdx' = rIdx + 1
            /\ rpc' = rpc
    /\ UNCHANGED <<now, envVars, incoming, events, log, disk, drive, calls, errs,
                   rZip, rlog, workVars>>

\* zipf.extractall(dest_dir): the next member is written below
\* tmpdir/extract; after the last one extractall returns.
RExtract ==
    /\ rpc = "extract"
    /\ IF rIdx > Len(zips[rZip].entries)
       THEN /\ rpc' = "move"
            /\ rIdx' = 0
            /\ UNCHANGED data
       ELSE /\ data' = [data EXCEPT ![TmpDir] =
                          AddFile(@, <<"extract">> \o ExtractPath(zips[rZip].entries[rIdx]), now)]
            /\ rIdx' = rIdx + 1
            /\ rpc' = rpc
    /\ UNCHANGED <<now, envVars, incoming, events, log, disk, drive, calls, errs,
                   rZip, rlog, workVars>>

\* RMove as a copy, one file at a time, into the final directory.
RMove_Piecewise ==
    /\ rpc = "move"
    /\ LET extracted == Below(data[TmpDir], <<"extract">>)
           there == IF rZip \in DOMAIN data THEN data[rZip] ELSE EmptyDir
           left == DOMAIN extracted \ DOMAIN there
       IN IF left = {}
          THEN /\ data' = With(Without(data, TmpDir), rZip, there)
               /\ rpc' = "remove"
          ELSE /\ \E p \in left : data' = With(data, rZip, AddFile(there, p, extracted[p]))
               /\ rpc' = rpc
    /\ UNCHANGED <<now, envVars, incoming, events, log, disk, drive, calls, errs,
                   rZip, rIdx, rlog, workVars>>

\* shutil.move(tmp_target, final_dir) and the end of the `with`: a rename on
\* one volume; into final_dir when that exists.
RMove ==
    /\ rpc = "move"
    /\ LET extracted == Below(data[TmpDir], <<"extract">>)
           rest == Without(data, TmpDir)
       IN data' = IF rZip \in DOMAIN data
                  THEN With(rest, rZip, Merge(data[rZip], Nest(extracted, <<"extract">>)))
                  ELSE With(rest, rZip, extracted)
    /\ rpc' = "remove"
    /\ UNCHANGED <<now, envVars, incoming, events, log, disk, drive, calls, errs,
                   rZip, rIdx, rlog, workVars>>

\* os.remove(zip_path) and the log line.
RRemove ==
    /\ rpc = "remove"
    /\ incoming' = [incoming EXCEPT ![rZip] = NoFile]
    /\ rlog' = <<"extracted", rZip>>
    /\ rpc' = "scan"
    /\ rZip' = None
    /\ UNCHANGED <<now, envVars, data, events, log, disk, drive, calls, errs, rIdx, workVars>>

Receiver == (\E l \in Labels : RScan(l)) \/ RBegin \/ ROpen \/ RExtract \/ RMove \/ RRemove

\* ------------------------------------------------------------------------
\* worker.py
\* ------------------------------------------------------------------------

\* list_images: the image files directly in a folder of `root`, sorted; a
\* folder that is not there has none.
list_images(root, folder) ==
    IF folder \notin DOMAIN root THEN <<>>
    ELSE SelectSeq(NameOrder,
                   LAMBDA n : <<n>> \in DOMAIN root[folder]
                              /\ Lower(Suffix(n)) \in IMG_EXTS)

RECURSIVE NewestFrom(_, _, _, _)
NewestFrom(dir, imgs, i, newest) ==
    IF i > Len(imgs) THEN newest
    ELSE LET m == dir[<<imgs[i]>>]
         IN NewestFrom(dir, imgs, i + 1, IF m > newest THEN m ELSE newest)

newest_image_mtime(root, folder) ==
    IF folder \notin DOMAIN root THEN 0
    ELSE NewestFrom(root[folder], list_images(root, folder), 1, 0)

\* The loop of choose_latest_ready_folder over `subs`, the subdirectories in
\* the order iterdir yields them; best = <<folder, newest mtime, images>>.
\* Consider with every qualifying folder taking the place of the best so far.
Consider_TakesEach(d, n, m, t, best) ==
    IF n < MIN_IMAGES THEN best
    ELSE IF m = 0 THEN best
    ELSE IF t - m < STABLE_SEC THEN best
    ELSE <<d, m, n>>

\* Consider without the stability test.
Consider_NoStable(d, n, m, t, best) ==
    IF n < MIN_IMAGES THEN best
    ELSE IF m = 0 THEN best
    ELSE IF m > best[2] THEN <<d, m, n>>
    ELSE best

\* Consider with the comparison of the mtimes turned round (the oldest wins).
Consider_Oldest(d, n, m, t, best) ==
    IF n < MIN_IMAGES THEN best
    ELSE IF m = 0 THEN best
    ELSE IF t - m < STABLE_SEC THEN best
    ELSE IF best[1] = None \/ m < best[2] THEN <<d, m, n>>
    ELSE best

\* One pass of the loop of choose_latest_ready_folder (lines 88-102) over
\* folder d of n images, the newest of mtime m; best = <<folder, mtime, n>>.
Consider(d, n, m, t, best) ==
    IF n < MIN_IMAGES THEN best
    ELSE IF m = 0 THEN best
    ELSE IF t - m < STABLE_SEC THEN best
    ELSE IF m > best[2] THEN <<d, m, n>>
    ELSE best

\* The loop over `subs`, the subdirectories in the order iterdir yields them.
RECURSIVE ChooseFrom(_, _, _, _, _)
ChooseFrom(root, subs, i, t, best) ==
    IF i > Len(subs) THEN best
    ELSE ChooseFrom(root, subs, i + 1, t,
                    Consider(subs[i], Len(list_images(root, subs[i])),
                             newest_image_mtime(root, subs[i]), t, best))

choose_latest_ready_folder(root, subs, t) ==
    ChooseFrom(root, subs, 1, t, <<None, 0, 0>>)

\* The orders in which iterdir may yield the subdirectories of a root.
Orders(S) ==
    {s \in [1..Cardinality(S) -> S] : \A i, j \in 1..Cardinality(S) : i # j => s[i] # s[j]}

\* detect_person_score on an image of the model: <<found, raises>>.
detect_person_score(image) ==
    CASE image \in {"p.jpg", "q.JPG"} -> [human |-> TRUE, raises |-> FALSE]
      [] image \in {"x.png", "e.png"} -> [human |-> FALSE, raises |-> TRUE]
      [] OTHER -> [human |-> FALSE, raises |-> FALSE]

\* ClassifyFrom with a failed image counted as a detection.
RECURSIVE ClassifyFrom_ErrorCounts(_, _, _, _)
ClassifyFrom_ErrorCounts(folder, images, i, acc) ==
    IF i > Len(images) THEN acc
    ELSE LET img == images[i]
             r == detect_person_score(img)
         IN ClassifyFrom_ErrorCounts(folder, images, i + 1,
              [rows |-> Append(acc.rows,
                               [folder |-> folder, image |-> img,
                                human |-> IF r.raises THEN "ERROR"
                                          ELSE IF r.human THEN "YES" ELSE "NO"]),
               has |-> acc.has \/ r.human \/ r.raises,
               persons |-> IF r.human THEN Append(acc.persons, img) ELSE acc.persons])

\* ClassifyFrom with the loop left at the first image that fails.
RECURSIVE ClassifyFrom_StopsAtError(_, _, _, _)
ClassifyFrom_StopsAtError(folder, images, i, acc) ==
    IF i > Len(images) THEN acc
    ELSE LET img == images[i]
             r == detect_person_score(img)
         IN IF r.raises
            THEN [acc EXCEPT !.rows = Append(@, [folder |-> folder, image |-> img,
                                                  human |-> "ERROR"])]
            ELSE ClassifyFrom_StopsAtError(folder, images, i + 1,
                   [rows |-> Append(acc.rows,
                                    [folder |-> folder, image |-> img,
                                     human |-> IF r.human THEN "YES" ELSE "NO"]),
                    has |-> acc.has \/ r.human,
                    persons |-> IF r.human THEN Append(acc.persons, img)
                                ELSE acc.persons])

\* main, lines 213-236: the classification loop over `images`.
RECURSIVE ClassifyFrom(_, _, _, _)
ClassifyFrom(folder, images, i, acc) ==
    IF i > Len(images) THEN acc
    ELSE LET img == images[i]
             r == detect_person_score(img)
         IN IF r.raises
            THEN ClassifyFrom(folder, images, i + 1,
                   [acc EXCEPT !.rows = Append(@, [folder |-> folder, image |-> img,
                                                    human |-> "ERROR"])])
            ELSE ClassifyFrom(folder, images, i + 1,
                   [rows |-> Append(acc.rows,
                                    [folder |-> folder, image |-> img,
                                     human |-> IF r.human THEN "YES" ELSE "NO"]),
                    has |-> acc.has \/ r.human,
                    persons |-> IF r.human THEN Append(acc.persons, img)
                                ELSE acc.persons])

Classify(folder, images) ==
    ClassifyFrom(folder, images, 1, [rows |-> <<>>, has |-> FALSE, persons |-> <<>>])

\* AlreadyProcessed reading the wrong key of the state.
AlreadyProcessed_WrongKey(st, folder, newest_m) ==
    st.result = folder /\ st.last_mtime = newest_m

\* The skip test of main, line 207.
AlreadyProcessed(st, folder, newest_m) ==
    st.last = folder /\ st.last_mtime = newest_m

HeaderRow == [folder |-> "folder", image |-> "image", human |-> "human"]

\* append_csv: the header goes first into a new file.
append_csv(logfile, rows) ==
    (IF logfile = <<>> THEN <<HeaderRow>> ELSE logfile) \o rows

\* move_folder's destination: the folder's name, suffixed with the time when
\* that name is taken.
MoveTarget(ev, name, t) ==
    IF <<name, 0>> \in DOMAIN ev THEN <<name, t>> ELSE <<name, 0>>

\* shutil.move(src, target) raises when target is a directory that already
\* holds an entry of src's name.
MoveRaises(ev, name, target) ==
    /\ target \in DOMAIN ev
    /\ \E p \in DOMAIN ev[target] : p[1] = name

\* MoveInto with one file of the folder lost on the way.
MoveInto_DropsOne(ev, name, target, dir) ==
    LET lost == CHOOSE p \in DOMAIN dir : TRUE
    IN With(ev, target, [p \in DOMAIN dir \ {lost} |-> dir[p]])

\* shutil.move(src, target): a rename; into target when target is a directory.
MoveInto(ev, name, target, dir) ==
    IF target \in DOMAIN ev
    THEN With(ev, target, Merge(ev[target], Nest(dir, <<name>>)))
    ELSE With(ev, target, dir)

EmptyState == [last |-> None, last_mtime |-> 0, result |-> None]

\* The end of a cycle: time.sleep(SLEEP_SEC) and the top of the loop.  The
\* locals of the cycle are dead from here on.
EndCycle(line) ==
    /\ wpc' = "idle"
    /\ wlog' = line
    /\ wFolder' = None
    /\ wNewest' = 0
    /\ wCount' = 0
    /\ wRows' = <<>>
    /\ wHas' = FALSE
    /\ wPersons' = <<>>
    /\ wDst' = <<None, 0>>
    /\ wIdx' = 0
    /\ wAttempt' = 0
    /\ wUploaded' = 0
    /\ wWait' = 0

\* main, lines 198-203: `while _running`, then
\* choose_latest_ready_folder(DATA_ROOT); none ready ends the cycle.
WChoose ==
    /\ wpc = "idle"
    /\ running
    /\ Len(log) < MaxLog
    /\ \E subs \in Orders(DOMAIN data) :
         \E best \in {choose_latest_ready_folder(data, subs, now)} :
            IF best[1] = None
            THEN EndCycle(<<"No ready folder.", None>>)
            ELSE /\ wFolder' = best[1]
                 /\ wNewest' = best[2]
                 /\ wCount' = best[3]
                 /\ wpc' = "check"
                 /\ UNCHANGED <<wRows, wHas, wPersons, wDst, wIdx, wAttempt, wUploaded, wWait, wlog>>
    /\ UNCHANGED <<now, envVars, fsVars, recvVars, state>>

\* main, lines 205-236: the skip test ends the cycle; else the images of the
\* folder are classified.
WCheck ==
    /\ wpc = "check"
    /\ IF AlreadyProcessed(state, wFolder, wNewest)
       THEN EndCycle(<<"Skip: already processed.", wFolder>>)
       ELSE \E c \in {Classify(wFolder, list_images(data, wFolder))} :
              /\ wRows' = c.rows
              /\ wHas' = c.has
              /\ wPersons' = c.persons
              /\ wpc' = "append"
              /\ wlog' = <<"Scanning", wFolder>>
              /\ UNCHANGED <<wFolder, wNewest, wCount, wDst, wIdx, wAttempt, wUploaded, wWait>>
    /\ UNCHANGED <<now, envVars, fsVars, recvVars, state>>

\* AfterAppend with the routing and the uploads left out.
AfterAppend_NoRoute(has) == "write"

\* main, line 243: `if folder_has_person`, the move and the uploads, or
\* straight to the state update.
AfterAppend(has) == IF has THEN "move" ELSE "write"

\* main, lines 239-241: append_csv.
WAppend ==
    /\ wpc = "append"
    /\ log' = append_csv(log, wRows)
    /\ wpc' = AfterAppend(wHas)
    /\ UNCHANGED <<now, envVars, incoming, data, events, disk, drive, calls, errs,
                   recvVars, state, wFolder, wNewest, wCount, wRows, wHas,
                   wPersons, wDst, wIdx, wAttempt, wUploaded, wWait, wlog>>

\* main, line 244: move_folder(folder, EVENTS_ROOT); a raise goes to the
\* handler of the loop (lines 263-266), which ends the cycle.
WMove ==
    /\ wpc = "move"
    /\ LET target == MoveTarget(events, wFolder, now)
       IN IF wFolder \notin DOMAIN data \/ MoveRaises(events, wFolder, target)
          THEN /\ EndCycle(<<"Loop error", wFolder>>)
               /\ errs' = errs + 1
               /\ UNCHANGED <<data, events>>
          ELSE /\ events' = MoveInto(events, wFolder, target, data[wFolder])
               /\ data' = Without(data, wFolder)
               /\ wDst' = target
               /\ wIdx' = 1
               /\ wpc' = IF wPersons = <<>> THEN "write" ELSE "upload"
               /\ UNCHANGED <<wRows, wHas, wPersons, wAttempt, wUploaded, wWait, wlog,
                              wFolder, wNewest, wCount, errs>>
    /\ UNCHANGED <<now, envVars, incoming, log, disk, drive, calls, recvVars, state>>

\* NextImage with the images after this one left out.
NextImage_SkipsRest ==
    /\ wAttempt' = 0
    /\ wpc' = "write"
    /\ wIdx' = wIdx

\* The loop of main, lines 249-252, goes to its next image, or ends.
NextImage ==
    /\ wAttempt' = 0
    /\ IF wIdx >= Len(wPersons)
       THEN wpc' = "write" /\ wIdx' = wIdx
       ELSE wpc' = "upload" /\ wIdx' = wIdx + 1

\* upload_image_to_drive, lines 141-153: the tests that return before the
\* helper is called.
UploadReturnsEarly(ev, dst, image) ==
    \/ ~cfg.enabled
    \/ ~cfg.url
    \/ <<image>> \notin DOMAIN ev[dst]
    \/ <<MarkName(image)>> \in DOMAIN ev[dst]

\* time.sleep(2 * (attempt + 1)), lines 164 and 168: the seconds slept after
\* the failed attempt `attempt` (counted from 0).
Backoff(attempt) == 2 * (attempt + 1)

\* LastAttempt with one attempt too many.
LastAttempt_OneMore(attempt) == attempt >= UPLOAD_RETRIES

\* for attempt in range(UPLOAD_RETRIES), line 156: no attempt follows this one.
LastAttempt(attempt) == attempt + 1 >= UPLOAD_RETRIES

\* AfterAttempt with the mark written whatever the helper returned.
AfterAttempt_AlwaysMarks(dir, image, rc, t) == AddFile(dir, <<MarkName(image)>>, t)

\* upload_image_to_drive, lines 158-161: the directory of the image after one
\* attempt; the mark is touched when the helper exited 0, and only then.
AfterAttempt(dir, image, rc, t) ==
    IF rc = "ok" THEN AddFile(dir, <<MarkName(image)>>, t) ELSE dir

\* What upload_image_to_drive returns when it returns early: True for an
\* existing mark (line 153), which is tested last; False before that.
EarlyReturnValue(ev, dst, image) ==
    /\ cfg.enabled
    /\ cfg.url
    /\ <<image>> \in DOMAIN ev[dst]

\* upload_image_to_drive(dst / old.name): the early returns, else one attempt
\* of lines 156-170.  The helper exits 0 (the image is on the drive, the mark
\* is touched, True is returned), or it exits non-zero, or launching it
\* raises; after UPLOAD_RETRIES failed attempts err() is called and False is
\* returned.  A returned True counts in `uploaded` (lines 251-252).
WUpload ==
    /\ wpc = "upload"
    /\ IF wAttempt = 0 /\ UploadReturnsEarly(events, wDst, wPersons[wIdx])
       THEN /\ NextImage
            /\ wUploaded' = IF EarlyReturnValue(events, wDst, wPersons[wIdx])
                            THEN wUploaded + 1 ELSE wUploaded
            /\ wWait' = 0
            /\ UNCHANGED <<events, drive, calls, errs>>
       ELSE /\ calls' = calls + 1
            /\ \E rc \in {"ok", "fail", "raise"} :
                 IF rc = "ok"
                 THEN /\ drive' = [drive EXCEPT ![<<wFolder, wPersons[wIdx]>>] = @ + 1]
                      /\ events' = [events EXCEPT ![wDst] =
                                      AfterAttempt(@, wPersons[wIdx], rc, now)]
                      /\ wUploaded' = wUploaded + 1
                      /\ wWait' = 0
                      /\ NextImage
                      /\ UNCHANGED errs
                 ELSE /\ UNCHANGED <<drive, wUploaded>>
                      /\ events' = [events EXCEPT ![wDst] =
                                      AfterAttempt(@, wPersons[wIdx], rc, now)]
                      /\ wWait' = Backoff(wAttempt)
                      /\ IF LastAttempt(wAttempt)
                         THEN NextImage /\ errs' = errs + 1
                         ELSE /\ wAttempt' = wAttempt + 1
                              /\ UNCHANGED <<wIdx, wpc, errs>>
    /\ UNCHANGED <<now, envVars, incoming, data, log, disk, recvVars, state,
                   wFolder, wNewest, wCount, wRows, wHas, wPersons, wDst, wlog>>

\* main, lines 255-261: state.update, write_state and the sleep.
WWrite ==
    /\ wpc = "write"
    /\ state' = [last |-> wFolder, last_mtime |-> wNewest,
                 result |-> IF wHas THEN "moved" ELSE "no_person"]
    /\ disk' = state'
    /\ EndCycle(<<IF wHas THEN "PERSON found, moved" ELSE "No person, left in place",
                   wFolder>>)
    /\ UNCHANGED <<now, envVars, incoming, data, events, log, drive, calls, errs, recvVars>>

Worker == WChoose \/ WCheck \/ WAppend \/ WMove \/ WUpload \/ WWrite

\* main, line 240, with append_csv raising (the log directory is gone or
\* not writable, the disk is full): the handler of the loop, lines 263-266,
\* reports it and the cycle is over.
WAppendFails ==
    /\ wpc = "append"
    /\ errs < MaxFailures
    /\ errs' = errs + 1
    /\ EndCycle(<<"Loop error", wFolder>>)
    /\ UNCHANGED <<now, envVars, incoming, data, events, log, disk, drive, calls,
                   recvVars, state>>

\* _sigterm, lines 37-41: SIGTERM or SIGINT reaches the worker; the handler
\* clears the flag and the worker goes on where it was.
WSignal ==
    /\ running
    /\ wpc # "exited"
    /\ running' = FALSE
    /\ UNCHANGED <<now, zips, cfg, delivered, crashes, appVars, fsVars, recvVars, workVars>>

\* main, lines 198 and 268: the loop test fails and the worker leaves.
WExit ==
    /\ wpc = "idle"
    /\ ~running
    /\ wpc' = "exited"
    /\ wlog' = <<"Worker exiting.", None>>
    /\ UNCHANGED <<now, envVars, fsVars, recvVars, state, wFolder, wNewest, wCount,
                   wRows, wHas, wPersons, wDst, wIdx, wAttempt, wUploaded, wWait>>

\* SIGTERM or SIGINT reaches the receiver, which installs no handler and whose
\* loop is `while True` (receive_cam_zip.py:68).  SIGTERM ends the process
\* where it is, and what it has written stays.  SIGINT raises
\* KeyboardInterrupt there, which no `except Exception` catches: the `with`
\* of line 49 removes the temporary directory, and the process ends.
RSignal(sig) ==
    /\ rpc # "killed"
    /\ rpc' = "killed"
    /\ rlog' = <<sig, rZip>>
    /\ data' = IF sig = "SIGINT" /\ TmpDir \in DOMAIN data
               THEN Without(data, TmpDir) ELSE data
    /\ UNCHANGED <<now, envVars, incoming, events, log, disk, drive, calls, errs,
                   rZip, rIdx, workVars>>

\* The receiver process dies inside process_one_zip and is started again:
\* main, line 67, then a new scan.  The files are as the dead process left
\* them: the archive, the batch directory once the rename is done, and the
\* temporary directory with what was extracted so far (nothing removes it:
\* the `with` of line 49 does not unwind when the process is killed); it
\* unwinds, and removes the directory, when the death is a KeyboardInterrupt.
RCrash ==
    /\ crashes < MaxCrashes
    /\ rpc \in {"open", "extract", "move", "remove"}
    /\ crashes' = crashes + 1
    /\ rpc' = "scan"
    /\ rZip' = None
    /\ rIdx' = 0
    /\ rlog' = <<"started", None>>
    /\ \E unwinds \in BOOLEAN :
         data' = IF TmpDir \notin DOMAIN data THEN data
                 ELSE IF unwinds THEN Without(data, TmpDir)
                 ELSE With(Without(data, TmpDir), StaleDir,
                           IF StaleDir \in DOMAIN data
                           THEN Merge(data[StaleDir], data[TmpDir])
                           ELSE data[TmpDir])
    /\ UNCHANGED <<now, zips, cfg, delivered, running, appVars, incoming, events, log, disk,
                   drive, calls, errs, workVars>>

\* ------------------------------------------------------------------------
\* app.py: the continuous capture
\* ------------------------------------------------------------------------

appFrame == <<now, zips, cfg, delivered, crashes, running, fsVars, recvVars, workVars>>

\* cont_enable, lines 227-236: `on` is read from the request and the event is
\* tested; the handler goes on to start the capture, to stop it, or answers
\* "No change".
ReqTest(r, on) ==
    /\ req[r] = "new"
    /\ req' = [req EXCEPT ![r] = IF on /\ ~CONT_RUNNING THEN "set"
                                 ELSE IF ~on /\ CONT_RUNNING THEN "clear"
                                 ELSE "done"]
    /\ UNCHANGED <<appFrame, CONT_RUNNING, cw>>

\* cont_enable, line 229: CONT_RUNNING.set().
ReqSet(r) ==
    /\ req[r] = "set"
    /\ CONT_RUNNING' = TRUE
    /\ req' = [req EXCEPT ![r] = "start"]
    /\ UNCHANGED <<appFrame, cw>>

\* cont_enable, lines 230-231: a new cont_worker thread is started.
ReqStart(r) ==
    /\ req[r] = "start"
    /\ cw' = [cw EXCEPT ![r] = "started"]
    /\ req' = [req EXCEPT ![r] = "done"]
    /\ UNCHANGED <<appFrame, CONT_RUNNING>>

\* cont_enable, lines 233-234: CONT_RUNNING.clear().
ReqClear(r) ==
    /\ req[r] = "clear"
    /\ CONT_RUNNING' = FALSE
    /\ req' = [req EXCEPT ![r] = "done"]
    /\ UNCHANGED <<appFrame, cw>>

\* cont_worker, line 211: `while CONT_RUNNING.is_set()`, on entry and after
\* each session; the thread starts a session or ends.
CwLoop(t) ==
    /\ cw[t] \in {"started", "loop"}
    /\ cw' = [cw EXCEPT ![t] = IF CONT_RUNNING THEN "capture" ELSE "stopped"]
    /\ UNCHANGED <<appFrame, CONT_RUNNING, req>>

\* _save_session_from_mjpeg, lines 179-195: frames are saved until the
\* session time is over or the event is found cleared.
CwCapture(t) ==
    /\ cw[t] = "capture"
    /\ cw' = [cw EXCEPT ![t] = "zip"]
    /\ UNCHANGED <<appFrame, CONT_RUNNING, req>>

\* cont_worker, line 217: _zip_and_cleanup.
CwZip(t) ==
    /\ cw[t] = "zip"
    /\ cw' = [cw EXCEPT ![t] = "upload"]
    /\ UNCHANGED <<appFrame, CONT_RUNNING, req>>

\* cont_worker, lines 219-220: upload_to_nas, then back to the loop test.
CwUpload(t) ==
    /\ cw[t] = "upload"
    /\ cw' = [cw EXCEPT ![t] = "loop"]
    /\ UNCHANGED <<appFrame, CONT_RUNNING, req>>

\* The worker process dies in the middle of a cycle and is started again:
\* main, lines 172-195, with read_state() giving what is on disk.  The files
\* are as the dead process left them.
WCrash ==
    /\ wpc # "idle"
    /\ state' = disk
    /\ EndCycle(<<"Interpreter ready.", None>>)
    /\ UNCHANGED <<now, envVars, fsVars, recvVars>>

\* Somebody else changes a batch under the data root: an image is touched,
\* removed, or added (with the current time, or with an old mtime that the
\* copy preserved).
TouchImage(f, img) ==
    /\ f \in DOMAIN data
    /\ <<img>> \in DOMAIN data[f]
    /\ data[f][<<img>>] < now
    /\ data' = [data EXCEPT ![f] = AddFile(@, <<img>>, now)]
    /\ UNCHANGED <<now, envVars, incoming, events, log, disk, drive, calls, errs,
                   recvVars, workVars>>

RemoveImage(f, img) ==
    /\ f \in DOMAIN data
    /\ <<img>> \in DOMAIN data[f]
    /\ data' = [data EXCEPT ![f] = [p \in DOMAIN @ \ {<<img>>} |-> @[p]]]
    /\ UNCHANGED <<now, envVars, incoming, events, log, disk, drive, calls, errs,
                   recvVars, workVars>>

AddImage(f, img, m) ==
    /\ f \in DOMAIN data
    /\ <<img>> \notin DOMAIN data[f]
    /\ data' = [data EXCEPT ![f] = AddFile(@, <<img>>, m)]
    /\ UNCHANGED <<now, envVars, incoming, events, log, disk, drive, calls, errs,
                   recvVars, workVars>>

\* ------------------------------------------------------------------------
\* Specifications
\* ------------------------------------------------------------------------

InitCommon ==
    /\ delivered = 0
    /\ crashes = 0
    /\ CONT_RUNNING = FALSE
    /\ req = [r \in Requests |-> "new"]
    /\ cw = [r \in Requests |-> "unborn"]
    /\ incoming = [l \in Labels |-> NoFile]
    /\ events = [k \in {} |-> EmptyDir]
    /\ log = <<>>
    /\ disk = EmptyState
    /\ drive = [i \in Labels \X {"p.jpg", "q.JPG"} |-> 0]
    /\ calls = 0
    /\ errs = 0
    /\ rpc = "scan"
    /\ rZip = None
    /\ rIdx = 0
    /\ rlog = <<"started", None>>
    /\ wpc = "idle"
    /\ state = EmptyState
    /\ wFolder = None
    /\ wNewest = 0
    /\ wCount = 0
    /\ wRows = <<>>
    /\ wHas = FALSE
    /\ wPersons = <<>>
    /\ wDst = <<None, 0>>
    /\ wIdx = 0
    /\ wAttempt = 0
    /\ wUploaded = 0
    /\ wWait = 0
    /\ wlog = <<"Interpreter ready.", None>>

\* The pipeline: the receiver and the worker on one processed/data root.
Init ==
    /\ InitCommon
    /\ now = 1
    /\ data = [k \in {} |-> EmptyDir]
    /\ zips = StdZips
    /\ cfg = [enabled |-> TRUE, url |-> TRUE]
    /\ running = TRUE

Next == Tick \/ (\E l \in Labels : Deliver(l)) \/ Receiver \/ Worker

Spec == Init /\ [][Next]_vars

\* Archive Landing alone, on archives of every shape: label "N" carries an
\* arbitrary archive (unsafe members at any position, nested members, a
\* corrupted archive, no members at all).
InitLanding ==
    /\ InitCommon
    /\ now = 1
    /\ data = [k \in {} |-> EmptyDir]
    /\ \E a \in ArchiveSet :
         zips = [l \in Labels |-> IF l = "N" THEN a ELSE StdZips[l]]
    /\ cfg = [enabled |-> TRUE, url |-> TRUE]
    /\ running = TRUE

NextLanding == Tick \/ (\E l \in Labels : Deliver(l)) \/ Receiver

SpecLanding == InitLanding /\ [][NextLanding]_vars

\* The worker alone, from time DetectStart on, on every data root of up to
\* three folders without a positive image: an empty folder, a folder without
\* images, a temporary directory of the receiver, folders of one image of
\* every age, folders of two images with the newer one first or last.
FolderNames == Labels \cup {TmpDir}

DetectFolders ==
    {EmptyDir}
    \cup {[p \in {<<"extract", "n.jpg">>} |-> 1]}
    \cup {[p \in {<<"t.txt">>} |-> 1]}
    \cup {[p \in {<<"n.jpg">>} |-> m] : m \in 1..DetectStart}
    \cup {[p \in {<<"n.jpg">>, <<"x.png">>} |-> IF p = <<"n.jpg">> THEN m ELSE 3 - m] :
             m \in {1, 2}}

InitDetect ==
    /\ InitCommon
    /\ now = DetectStart
    /\ \E names \in SUBSET FolderNames : data \in [names -> DetectFolders]
    /\ zips = StdZips
    /\ cfg = [enabled |-> TRUE, url |-> TRUE]
    /\ running = TRUE

NextDetect == Tick \/ WChoose \/ WCheck \/ WAppend \/ WWrite

SpecDetect == InitDetect /\ [][NextDetect]_vars

\* upload_image_to_drive alone: the worker has moved batch P to events/P and
\* is about to offer its positive images to the uploader.  The directory
\* holds any of the two images and of their marks, and the configuration is
\* any of the four.
UploadFiles == {"p.jpg", "q.JPG", MarkName("p.jpg"), MarkName("q.JPG")}

InitUpload ==
    /\ now = 1
    /\ zips = StdZips
    /\ cfg \in [enabled : BOOLEAN, url : BOOLEAN]
    /\ running = TRUE
    /\ delivered = 0
    /\ crashes = 0
    /\ CONT_RUNNING = FALSE
    /\ req = [r \in Requests |-> "new"]
    /\ cw = [r \in Requests |-> "unborn"]
    /\ incoming = [l \in Labels |-> NoFile]
    /\ data = [k \in {} |-> EmptyDir]
    /\ \E files \in SUBSET UploadFiles :
         events = [k \in {<<"P", 0>>} |-> [f \in {<<n>> : n \in files} |-> 1]]
    /\ disk = EmptyState
    /\ drive = [i \in Labels \X {"p.jpg", "q.JPG"} |-> 0]
    /\ calls = 0
    /\ errs = 0
    /\ rpc = "scan"
    /\ rZip = None
    /\ rIdx = 0
    /\ rlog = <<"started", None>>
    /\ wpc = "upload"
    /\ state = EmptyState
    /\ wFolder = "P"
    /\ wNewest = 1
    /\ wPersons \in {<<"p.jpg">>, <<"p.jpg", "q.JPG">>}
    /\ wCount = Len(wPersons)
    /\ wRows = Classify("P", wPersons).rows
    /\ log = append_csv(<<>>, wRows)
    /\ wHas = TRUE
    /\ wDst = <<"P", 0>>
    /\ wIdx = 1
    /\ wAttempt = 0
    /\ wUploaded = 0
    /\ wWait = 0
    /\ wlog = <<"Scanning", "P">>

NextUpload == Tick \/ WUpload \/ WWrite

SpecUpload == InitUpload /\ [][NextUpload]_vars

\* The batch directory process_one_zip makes of the archive of label l at
\* time m.
Landed(l, m) ==
    [p \in {ExtractPath(StdZips[l].entries[i]) : i \in 1..Len(StdZips[l].entries)} |-> m]

\* The worker alone, killed and restarted at any point of any cycle, on a data
\* root where the negative batch N and the positive batch P have landed, P
\* together with N or after it.
InitCrash ==
    /\ InitCommon
    /\ now = 1
    /\ zips = StdZips
    /\ cfg = [enabled |-> TRUE, url |-> TRUE]
    /\ running = TRUE
    /\ \E m \in {1, 2} : data = [l \in Labels |-> Landed(l, IF l = "P" THEN m ELSE 1)]

NextCrash == Tick \/ Worker \/ WCrash

SpecCrash == InitCrash /\ [][NextCrash]_vars

\* The worker alone and never stopped, with no further arrival: the batches N
\* and P have landed, one before the other or both at once, and the loop of
\* main keeps running (time.sleep returns, every call terminates).
InitFair ==
    /\ InitCommon
    /\ now = 1
    /\ zips = StdZips
    /\ cfg = [enabled |-> TRUE, url |-> TRUE]
    /\ running = TRUE
    /\ \E mN, mP \in {1, 2} :
         data = [l \in Labels |-> Landed(l, IF l = "P" THEN mP ELSE mN)]

NextFair == Tick \/ Worker

SpecFair == InitFair /\ [][NextFair]_vars /\ WF_vars(Worker)

\* The pipeline with its two processes sent a shutdown signal at any time.
NextShutdown ==
    \/ Next
    \/ WSignal
    \/ WExit
    \/ \E sig \in {"SIGTERM", "SIGINT"} : RSignal(sig)

SpecShutdown == Init /\ [][NextShutdown]_vars

\* The worker alone on the landed batches N and P, with a result log that
\* may fail to take the rows.
NextLogFail == Tick \/ Worker \/ WAppendFails

SpecLogFail == InitCrash /\ [][NextLogFail]_vars

\* Archive Landing on archives of every shape, with an extraction or a move
\* that may fail.
NextLandFail == NextLanding \/ RFails

SpecLandFail == InitLanding /\ [][NextLandFail]_vars

\* The worker alone on the landed negative batch N, whose images (none of
\* them positive) change under it.
ChangeImages == {"n.jpg", "x.png"}

InitChange ==
    /\ InitCommon
    /\ now = 2
    /\ zips = StdZips
    /\ cfg = [enabled |-> TRUE, url |-> TRUE]
    /\ running = TRUE
    /\ data = [l \in {"N"} |-> AddFile(AddFile(EmptyDir, <<"n.jpg">>, 1), <<"x.png">>, 2)]

NextChange ==
    \/ Tick
    \/ WChoose
    \/ WCheck
    \/ WAppend
    \/ WWrite
    \/ \E img \in ChangeImages :
         \/ TouchImage("N", img)
         \/ RemoveImage("N", img)
         \/ \E m \in {1, now} : AddImage("N", img, m)

SpecChange == InitChange /\ [][NextChange]_vars

\* The worker alone on one stable batch holding any mix of images: negative,
\* positive and unreadable.
ClassifyImages == {"e.png", "n.jpg", "p.jpg", "q.JPG", "x.png"}

InitClassify ==
    /\ InitCommon
    /\ now = 2
    /\ zips = StdZips
    /\ cfg = [enabled |-> TRUE, url |-> TRUE]
    /\ running = TRUE
    /\ \E imgs \in SUBSET ClassifyImages \ {{}} :
         data = [l \in {"P"} |-> [p \in {<<i>> : i \in imgs} |-> 1]]

NextClassify == Tick \/ Worker

SpecClassify == InitClassify /\ [][NextClassify]_vars

\* The worker alone on the positive batch P, with an events root that already
\* holds any of: an entry of P's name, and entries of P's name stamped with
\* the times at which the move can happen.
MoveStamps == {2, 3}

OldEntries == {AddFile(EmptyDir, <<"n.jpg">>, 1), AddFile(EmptyDir, <<"P", "n.jpg">>, 1)}

InitMove ==
    /\ now \in MoveStamps
    /\ zips = StdZips
    /\ cfg = [enabled |-> TRUE, url |-> TRUE]
    /\ running = TRUE
    /\ delivered = 0
    /\ crashes = 0
    /\ CONT_RUNNING = FALSE
    /\ req = [r \in Requests |-> "new"]
    /\ cw = [r \in Requests |-> "unborn"]
    /\ incoming = [l \in Labels |-> NoFile]
    /\ data = [l \in {"P"} |-> Landed("P", 1)]
    /\ \E keys \in SUBSET ({<<"P", 0>>} \cup {<<"P", t>> : t \in MoveStamps}) :
         \E old \in OldEntries : events = [k \in keys |-> old]
    /\ log = <<>>
    /\ disk = EmptyState
    /\ drive = [i \in Labels \X {"p.jpg", "q.JPG"} |-> 0]
    /\ calls = 0
    /\ errs = 0
    /\ rpc = "scan"
    /\ rZip = None
    /\ rIdx = 0
    /\ rlog = <<"started", None>>
    /\ wpc = "idle"
    /\ state = EmptyState
    /\ wFolder = None
    /\ wNewest = 0
    /\ wCount = 0
    /\ wRows = <<>>
    /\ wHas = FALSE
    /\ wPersons = <<>>
    /\ wDst = <<None, 0>>
    /\ wIdx = 0
    /\ wAttempt = 0
    /\ wUploaded = 0
    /\ wWait = 0
    /\ wlog = <<"Interpreter ready.", None>>

NextMove == Tick \/ Worker

SpecMove == InitMove /\ [][NextMove]_vars

\* The worker alone, scheduled fairly while time passes, on a stable batch P
\* with two positive images and a negative batch N that comes of age later.
InitRetry ==
    /\ InitCommon
    /\ now = 2
    /\ zips = StdZips
    /\ cfg = [enabled |-> TRUE, url |-> TRUE]
    /\ running = TRUE
    /\ \E imgs \in {{"p.jpg", "q.JPG"}, {"n.jpg", "p.jpg", "q.JPG"}} :
         data = [l \in Labels |->
                   IF l = "P" THEN [p \in {<<i>> : i \in imgs} |-> 1]
                   ELSE AddFile(EmptyDir, <<"n.jpg">>, 2)]

NextRetry == Tick \/ Worker

SpecRetry == InitRetry /\ [][NextRetry]_vars /\ WF_vars(Worker) /\ WF_vars(Tick)

\* The receiver alone (the worker is not running), scheduled fairly while
\* time passes, killed and started again at any point of process_one_zip;
\* the archive N is in the incoming directory, and is a readable archive
\* whose members are safe: flat, with a subdirectory, with a member that
\* comes twice, with a ".." that stays inside, or empty.
RestartZips ==
    {[entries |-> e, corrupt |-> FALSE] :
        e \in {StdZips["N"].entries, StdZips["P"].entries,
               << <<"d", "n.jpg">>, <<"t.txt">> >>,
               << <<"p.jpg">>, <<"p.jpg">> >>,
               << <<"d", "..", "n.jpg">>, <<"p.jpg">> >>,
               << >>}}

InitRestart ==
    /\ now = 1
    /\ \E a \in RestartZips :
         zips = [l \in Labels |-> IF l = "N" THEN a ELSE StdZips[l]]
    /\ cfg = [enabled |-> TRUE, url |-> TRUE]
    /\ running = TRUE
    /\ delivered = 1
    /\ crashes = 0
    /\ CONT_RUNNING = FALSE
    /\ req = [r \in Requests |-> "new"]
    /\ cw = [r \in Requests |-> "unborn"]
    /\ incoming = [l \in Labels |-> IF l = "N" THEN now ELSE NoFile]
    /\ data = [k \in {} |-> EmptyDir]
    /\ events = [k \in {} |-> EmptyDir]
    /\ log = <<>>
    /\ disk = EmptyState
    /\ drive = [i \in Labels \X {"p.jpg", "q.JPG"} |-> 0]
    /\ calls = 0
    /\ errs = 0
    /\ rpc = "scan"
    /\ rZip = None
    /\ rIdx = 0
    /\ rlog = <<"started", None>>
    /\ wpc = "exited"
    /\ state = EmptyState
    /\ wFolder = None
    /\ wNewest = 0
    /\ wCount = 0
    /\ wRows = <<>>
    /\ wHas = FALSE
    /\ wPersons = <<>>
    /\ wDst = <<None, 0>>
    /\ wIdx = 0
    /\ wAttempt = 0
    /\ wUploaded = 0
    /\ wWait = 0
    /\ wlog = <<"Worker exiting.", None>>

NextRestart == Tick \/ Receiver \/ RCrash

SpecRestart ==
    InitRestart /\ [][NextRestart]_vars /\ WF_vars(Receiver) /\ WF_vars(Tick)

\* The camera application: the request threads of /api/cont/enable (the
\* server is threaded) and the cont_worker threads they start.
InitApp ==
    /\ InitCommon
    /\ now = 1
    /\ data = [k \in {} |-> EmptyDir]
    /\ zips = StdZips
    /\ cfg = [enabled |-> TRUE, url |-> TRUE]
    /\ running = TRUE

NextApp ==
    \/ \E r \in Requests, on \in BOOLEAN : ReqTest(r, on)
    \/ \E r \in Requests : ReqSet(r)
    \/ \E r \in Requests : ReqStart(r)
    \/ \E r \in Requests : ReqClear(r)
    \/ \E t \in Requests : CwLoop(t)
    \/ \E t \in Requests : CwCapture(t)
    \/ \E t \in Requests : CwZip(t)
    \/ \E t \in Requests : CwUpload(t)

SpecApp == InitApp /\ [][NextApp]_vars

\* choose_latest_ready_folder alone, called at any time on every data root of
\* InitDetect.
NextChoose == Tick \/ WChoose

SpecChoose == InitDetect /\ [][NextChoose]_vars

\* ------------------------------------------------------------------------
\* Properties
\* ------------------------------------------------------------------------

\* The images directly in a directory, and the newest of their mtimes.
ImagesIn(dir) ==
    {p \in DOMAIN dir : Len(p) = 1 /\ Lower(Suffix(p[1])) \in IMG_EXTS}

NewestIn(dir) ==
    IF ImagesIn(dir) = {} THEN 0
    ELSE CHOOSE m \in {dir[p] : p \in ImagesIn(dir)} :
           \A p \in ImagesIn(dir) : dir[p] <= m

\* A folder of the data root meets the minimum image count and is stable.
Qualifies(root, d, t) ==
    /\ Cardinality(ImagesIn(root[d])) >= MIN_IMAGES
    /\ t - NewestIn(root[d]) >= STABLE_SEC

\* The entries of an archive, as a set of names.
EntrySet(zip) == {zip.entries[i] : i \in 1..Len(zip.entries)}

\* The lines of the result log for one image of one folder.
RowsOf(f, image) ==
    {k \in 1..Len(log) : log[k].folder = f /\ log[k].image = image}

\* No batch of this name was ever moved to the events root: the batch under
\* the data root is the one that landed first, with the images it landed with.
NeverMoved(f) == \A e \in DOMAIN events : e[1] # f

\* C1: a batch whose images do not change is classified and logged in at most
\* one cycle: the log holds at most one row for each of its images.
C1_LoggedOnce ==
    \A f \in Labels :
        NeverMoved(f) => \A image \in {"n.jpg", "p.jpg", "x.png"} :
                             Cardinality(RowsOf(f, image)) <= 1

\* C2: the upload helper completes successfully at most once for an image.
C2_UploadedOnce ==
    \A i \in DOMAIN drive : drive[i] <= 1

\* C3: whatever the order of the scan and whenever it runs, the detector
\* selects only a published batch directory that holds the complete entry set
\* of its archive; never the temporary directory, never a part of a batch.
C3_NeverPartial ==
    \A subs \in Orders(DOMAIN data) :
        \A best \in {choose_latest_ready_folder(data, subs, now)} :
            best[1] # None =>
                /\ best[1] \in Labels
                /\ DOMAIN data[best[1]] = EntrySet(zips[best[1]])

\* C3, the case: the receiver has written one of the two members, long enough
\* ago to pass for stable, while the worker is in a cycle on the other batch.
C3_Witness ==
    /\ rpc = "extract"
    /\ rIdx = 2
    /\ Len(zips[rZip].entries) = 2
    /\ \E p \in DOMAIN data[TmpDir] : now - data[TmpDir][p] >= STABLE_SEC
    /\ wpc = "append"
    /\ wFolder # rZip

\* An entry whose resolved target is not the destination or below it.
Escapes(entry) ==
    LET target == Resolve(DestPath, entry)
    IN ~(\E k \in 0..Len(target) : SubSeq(target, 1, k) = DestPath)

HasEscaping(zip) == \E i \in 1..Len(zip.entries) : Escapes(zip.entries[i])

\* C4: an archive with an entry that resolves outside the destination makes
\* process_one_zip raise before a file is written: it is never past the
\* check, its temporary directory stays empty, and no batch directory of its
\* name appears, wherever the entry stands in the archive.
C4_UnsafeNeverLands ==
    \A l \in Labels :
        HasEscaping(zips[l]) =>
            /\ l \notin DOMAIN data
            /\ rZip = l => /\ rpc \in {"process", "open"}
                           /\ TmpDir \in DOMAIN data => DOMAIN data[TmpDir] = {}
            /\ rlog \notin {<<"extracted", l>>, <<"duplicate", l>>}

\* C4, the case: the archive is sound, its first entry is safe, its last one
\* escapes, and process_one_zip has raised.
C4_Witness ==
    /\ rlog = <<"failed", "N">>
    /\ ~zips["N"].corrupt
    /\ Len(zips["N"].entries) = 2
    /\ ~Escapes(zips["N"].entries[1])
    /\ Escapes(zips["N"].entries[2])
    /\ TmpDir \notin DOMAIN data

\* An archive that is readable and has no entry with a ".." or an absolute
\* path.
WellFormed(zip) ==
    /\ ~zip.corrupt
    /\ \A i \in 1..Len(zip.entries) :
         \A k \in 1..Len(zip.entries[i]) : zip.entries[i][k] \notin {"..", "/"}

\* C5: a well-formed archive never makes process_one_zip raise, and the batch
\* directory it produces holds exactly the archive's set of entries.
C5_ExactEntrySet ==
    \A l \in Labels :
        WellFormed(zips[l]) =>
            /\ rlog # <<"failed", l>>
            /\ l \in DOMAIN data => DOMAIN data[l] = EntrySet(zips[l])
            /\ (rlog = <<"extracted", l>> \/ (rpc = "remove" /\ rZip = l))
                   => l \in DOMAIN data

\* C5, the case: a well-formed archive of a plain and a nested entry landed.
C5_Witness ==
    /\ rlog = <<"extracted", "N">>
    /\ WellFormed(zips["N"])
    /\ EntrySet(zips["N"]) = {<<"p.jpg">>, <<"d", "n.jpg">>}
    /\ DOMAIN data["N"] = {<<"p.jpg">>, <<"d", "n.jpg">>}

\* C6: process_one_zip on an archive whose batch directory exists deletes
\* the archive and leaves the processed root as it was; nothing is extracted.
C6_DuplicateNoChange ==
    [][(rpc = "process" /\ rZip \in DOMAIN data /\ rpc' # rpc)
         => /\ incoming' = [incoming EXCEPT ![rZip] = NoFile]
            /\ data' = data
            /\ events' = events
            /\ rpc' = "scan"
            /\ rlog' = <<"duplicate", rZip>>]_vars

\* C6, the case: the archive of an existing batch was delivered again and
\* removed as a duplicate.
C6_Witness ==
    /\ rlog = <<"duplicate", "N">>
    /\ "N" \in DOMAIN data
    /\ DOMAIN data["N"] # {}
    /\ incoming["N"] = NoFile
    /\ delivered = 2

\* C7: whatever the order of the scan, the folder choose_latest_ready_folder
\* returns has the minimum image count and a newest image at least as old as
\* the stability window; when no folder qualifies it returns none.
C7_OnlyReady ==
    \A subs \in Orders(DOMAIN data) :
        \A best \in {choose_latest_ready_folder(data, subs, now)} :
            /\ best[1] # None => Qualifies(data, best[1], now)
            /\ (\A d \in DOMAIN data : ~Qualifies(data, d, now)) => best = <<None, 0, 0>>

\* C7, the case: the worker selected a folder while another folder had too
\* few images and a third one was not yet stable.
C7_Witness ==
    /\ wpc = "check"
    /\ Qualifies(data, wFolder, now)
    /\ \E d \in DOMAIN data : Cardinality(ImagesIn(data[d])) < MIN_IMAGES
    /\ \E d \in DOMAIN data :
         /\ Cardinality(ImagesIn(data[d])) >= MIN_IMAGES
         /\ now - NewestIn(data[d]) < STABLE_SEC

\* C8: whatever the order of the scan, choose_latest_ready_folder returns a
\* qualifying folder whose newest image mtime is the greatest among the
\* qualifying folders, with that mtime and its image count.
C8_LatestWins ==
    \A subs \in Orders(DOMAIN data) :
        \A best \in {choose_latest_ready_folder(data, subs, now)} :
            (\E d \in DOMAIN data : Qualifies(data, d, now)) =>
                /\ best[1] \in DOMAIN data
                /\ Qualifies(data, best[1], now)
                /\ best[2] = NewestIn(data[best[1]])
                /\ best[3] = Cardinality(ImagesIn(data[best[1]]))
                /\ \A d \in DOMAIN data :
                     Qualifies(data, d, now) => NewestIn(data[d]) <= best[2]

\* C8, the case: two folders qualify, with newest mtimes T1 < T2, and the
\* worker selected the one with T2.
C8_Witness ==
    /\ wpc = "check"
    /\ wFolder \in DOMAIN data
    /\ wNewest = NewestIn(data[wFolder])
    /\ \E d \in DOMAIN data \ {wFolder} :
         /\ Qualifies(data, d, now - 1)
         /\ NewestIn(data[d]) < wNewest

\* C9: a cycle that selected the folder and the mtime the state records ends
\* at once: no log row, no move, no call of the helper, the state as it was.
C9_SkipIsNoOp ==
    [][(wpc = "check" /\ state.last = wFolder /\ state.last_mtime = wNewest
          /\ wpc' # wpc)
         => /\ wpc' = "idle"
            /\ log' = log
            /\ data' = data
            /\ events' = events
            /\ calls' = calls
            /\ drive' = drive
            /\ state' = state
            /\ disk' = disk]_vars

\* C9, the case: the worker skipped the batch its state records, which is
\* still under the data root.
C9_Witness ==
    /\ wlog = <<"Skip: already processed.", "N">>
    /\ state.last = "N"
    /\ "N" \in DOMAIN data
    /\ state.last_mtime = NewestIn(data["N"])

\* The running cycle classified no image of its folder positive.
NoPositiveRow == \A k \in 1..Len(wRows) : wRows[k].human # "YES"

\* The rows a step appended to the result log (the header aside).
Appended ==
    SubSeq(log', (IF log = <<>> THEN 1 ELSE Len(log)) + 1, Len(log'))

\* C10: a cycle over a batch of N images, none classified positive, appends
\* exactly N rows, one for each image and each NO or ERROR, then writes the
\* state; it moves nothing and never calls the upload helper.
C10_NegativeCycle ==
    [][(wpc \in {"append", "move", "upload", "write"} /\ NoPositiveRow /\ wpc' # wpc)
         => /\ data' = data
            /\ events' = events
            /\ calls' = calls
            /\ drive' = drive
            /\ wpc = "append" =>
                 /\ wpc' = "write"
                 /\ Len(Appended) = Cardinality(ImagesIn(data[wFolder]))
                 /\ {<<Appended[k].folder, Appended[k].image>> : k \in 1..Len(Appended)}
                      = {<<wFolder, p[1]>> : p \in ImagesIn(data[wFolder])}
                 /\ \A k \in 1..Len(Appended) : Appended[k].human \in {"NO", "ERROR"}
            /\ wpc # "append" => (wpc = "write" /\ wpc' = "idle" /\ log' = log)]_vars

\* C10, the case: the cycle over batch N (one NO, one ERROR) is over; the
\* batch is in place and the helper was never called.
C10_Witness ==
    /\ wlog = <<"No person, left in place", "N">>
    /\ "N" \in DOMAIN data
    /\ Cardinality(ImagesIn(data["N"])) = 2
    /\ \E k1, k2 \in 1..Len(log) :
         /\ log[k1] = [folder |-> "N", image |-> "n.jpg", human |-> "NO"]
         /\ log[k2] = [folder |-> "N", image |-> "x.png", human |-> "ERROR"]
    /\ calls = 0

\* The worker took a step (the steps of the receiver and of the clock leave
\* its position alone).
WorkerStep == <<wpc, wIdx, wAttempt>>' # <<wpc, wIdx, wAttempt>>

\* C11: a cycle that classified an image positive goes from the log append to
\* the move; the move takes the batch away from the data root and puts every
\* file of it, as it was, under one directory of the events root; the uploads
\* and the state write that follow leave the data root alone and keep those
\* files in that directory.
C11_PositiveMoved ==
    [][WorkerStep =>
         /\ (wpc = "append" /\ ~NoPositiveRow) => wpc' = "move"
         /\ wpc = "move" =>
              /\ ~NoPositiveRow
              /\ wpc' \in {"upload", "write"}
              /\ wFolder \notin DOMAIN data'
              /\ wDst' \in DOMAIN events'
              /\ wDst'[1] = wFolder
              /\ \A p \in DOMAIN data[wFolder] :
                   /\ p \in DOMAIN events'[wDst']
                   /\ events'[wDst'][p] = data[wFolder][p]
         /\ wpc \in {"upload", "write"} =>
              /\ data' = data
              /\ wpc = "upload" => wpc' \in {"upload", "write"}
              /\ wDst \in DOMAIN events =>
                   /\ wDst \in DOMAIN events'
                   /\ \A p \in DOMAIN events[wDst] :
                        /\ p \in DOMAIN events'[wDst]
                        /\ events'[wDst][p] = events[wDst][p]]_vars

\* C11, the case: the cycle over the positive batch P is over; P is gone from
\* the data root and its two files are under events/P.
C11_Witness ==
    /\ wlog = <<"PERSON found, moved", "P">>
    /\ "P" \notin DOMAIN data
    /\ <<"P", 0>> \in DOMAIN events
    /\ {<<"p.jpg">>, <<"n.jpg">>} \subseteq DOMAIN events[<<"P", 0>>]

\* The uploader is being called (no attempt made yet) for an image that is
\* in the directory with its mark next to it.
CalledWithMark ==
    /\ wpc = "upload"
    /\ wAttempt = 0
    /\ <<wPersons[wIdx]>> \in DOMAIN events[wDst]
    /\ <<MarkName(wPersons[wIdx])>> \in DOMAIN events[wDst]

\* C12: upload_image_to_drive, called for an image whose mark exists, starts
\* the helper zero times and returns success, whatever the enable flag and
\* the endpoint are.
C12_MarkMeansSuccess ==
    [][(CalledWithMark /\ WorkerStep)
         => (calls' = calls /\ wUploaded' = wUploaded + 1)]_vars

\* No attempt of the run has succeeded.
EveryAttemptFailed == \A i \in DOMAIN drive : drive[i] = 0

\* C13: as long as the helper fails on every attempt, it was started
\* UPLOAD_RETRIES times for each call that gave up, and each such call wrote
\* one error line; the step that gives up is the UPLOAD_RETRIES-th attempt,
\* writes no mark and returns failure.
C13_ExactRetries ==
    /\ [](EveryAttemptFailed => calls = UPLOAD_RETRIES * errs + wAttempt)
    /\ [][(wpc = "upload" /\ errs' # errs)
            => /\ errs' = errs + 1
               /\ calls' = calls + 1
               /\ wAttempt = UPLOAD_RETRIES - 1
               /\ events' = events
               /\ drive' = drive
               /\ wUploaded' = wUploaded]_vars

\* C13, the case: the one image of the batch was offered, the helper failed
\* UPLOAD_RETRIES times, and the call gave up: one error line, no mark, no
\* upload counted.
C13_Witness ==
    /\ wpc = "write"
    /\ wPersons = <<"p.jpg">>
    /\ calls = UPLOAD_RETRIES
    /\ errs = 1
    /\ wUploaded = 0
    /\ EveryAttemptFailed
    /\ DOMAIN events[wDst] = {<<"p.jpg">>}

\* The running cycle has classified every image of its batch, its rows are
\* the last lines of the log, and, for a positive batch, the batch is under
\* the events root and the last positive image has been offered.
CycleDone ==
    /\ wFolder \in Labels
    /\ Len(wRows) = wCount
    /\ wCount >= MIN_IMAGES
    /\ Len(log) >= Len(wRows)
    /\ SubSeq(log, Len(log) - Len(wRows) + 1, Len(log)) = wRows
    /\ ~NoPositiveRow =>
         /\ wDst[1] = wFolder
         /\ wDst \in DOMAIN events
         /\ wPersons # <<>>
         /\ wIdx = Len(wPersons)
         /\ wAttempt = 0

\* C14: the state, in memory or on disk, changes only in the last step of a
\* cycle, after classification, log append, routing and every upload attempt,
\* and then to the batch of that cycle, the same in memory and on disk.
C14_StateWrittenLast ==
    [][(state' # state \/ disk' # disk)
         => /\ wpc = "write"
            /\ wpc' = "idle"
            /\ CycleDone
            /\ state'.last = wFolder
            /\ state'.last_mtime = wNewest
            /\ disk' = state']_vars

\* C14, the case: the state names the positive batch P, whose image was
\* uploaded and marked before the state was written.
C14_Witness ==
    /\ state.last = "P"
    /\ state.result = "moved"
    /\ disk = state
    /\ <<"P", 0>> \in DOMAIN events
    /\ <<MarkName("p.jpg")>> \in DOMAIN events[<<"P", 0>>]
    /\ wpc = "idle"

\* The worker was in a cycle and is now back at the start of main.
Restarted ==
    /\ wpc # "idle"
    /\ wpc' = "idle"
    /\ wlog' = <<"Interpreter ready.", None>>

\* C15: when the worker dies in a cycle before the state is written and is
\* started again, the state it loads is the one on disk, which the cycle has
\* not changed, and the interrupted batch is still under the data root, where
\* the next cycles select and process it.
C15_CrashReprocesses ==
    [][Restarted => /\ disk' = disk
                    /\ state' = disk
                    /\ wFolder \in DOMAIN data']_vars

\* The result log holds a row of folder f.
Logged(f) == \E k \in 1..Len(log) : log[k].folder = f

\* Batch f qualifies and so does another batch with a newer newest image.
OlderQualifying(f) ==
    /\ f \in DOMAIN data
    /\ Qualifies(data, f, now)
    /\ \E g \in DOMAIN data :
         Qualifies(data, g, now) /\ NewestIn(data[g]) > NewestIn(data[f])

\* C16: with the worker loop running and nothing arriving, every batch under
\* the data root that has the minimum image count and is stable is classified
\* and logged in the end; stated for the batch the claim singles out, one
\* that is older than another qualifying batch.
C16_OlderBatchLogged ==
    \A f \in Labels : OlderQualifying(f) ~> Logged(f)

\* C17: after a shutdown request each loop finishes the operation it is in
\* and ends at its next iteration boundary: the worker leaves only between
\* two cycles, with the flag cleared, and starts no cycle once the flag is
\* cleared; the receiver does not end inside process_one_zip, with an
\* archive opened, partly extracted, or published and not yet removed.
C17_CleanShutdown ==
    [][/\ wpc' = "exited" => (wpc \in {"idle", "exited"} /\ ~running)
       /\ (~running /\ wpc = "idle") => wpc' \in {"idle", "exited"}
       /\ rpc' = "killed" => rpc \notin {"open", "extract", "move", "remove"}]_vars

\* C18: whether the append of its rows to the log succeeds or fails, a cycle
\* goes on from there as it does after a successful append: to the move and
\* the uploads for a positive batch, to the state update for a negative one.
C18_AppendFailureGoesOn ==
    [][(wpc = "append" /\ wpc' # wpc)
         => wpc' = (IF NoPositiveRow THEN "write" ELSE "move")]_vars

\* C19: an archive leaves the incoming directory only at the duplicate guard,
\* its batch directory existing, or as the last step of process_one_zip, its
\* batch directory published; when the integrity check, the path check, the
\* extraction or the move fails, the archive stays where it is and the
\* processed root holds no batch directory of its name.
C19_RemovedOnlyWhenLanded ==
    [][/\ \A l \in Labels :
            (incoming[l] # NoFile /\ incoming'[l] = NoFile) =>
                /\ rZip = l
                /\ rpc \in {"process", "remove"}
                /\ l \in DOMAIN data
                /\ data' = data
       /\ (rpc \in {"open", "extract", "move"} /\ rpc' = "scan") =>
                /\ incoming'[rZip] = incoming[rZip]
                /\ incoming[rZip] # NoFile
                /\ rZip \notin DOMAIN data'
                /\ TmpDir \notin DOMAIN data']_vars

\* C19, the case: a readable, safe archive of two entries failed in the
\* extraction or in the move; it is still in the incoming directory and
\* nothing of it is under the processed root.
C19_Witness ==
    /\ rlog = <<"failed", "N">>
    /\ ZipReadable(zips["N"])
    /\ AllMembersSafe(zips["N"].entries)
    /\ Len(zips["N"].entries) = 2
    /\ incoming["N"] # NoFile
    /\ "N" \notin DOMAIN data
    /\ TmpDir \notin DOMAIN data

\* The images of a directory with their mtimes.
ImageSet(dir) == [p \in ImagesIn(dir) |-> dir[p]]

\* The worker is between two cycles and the state records batch f as it is.
RecordedAsIs(f) ==
    /\ wpc = "idle"
    /\ f \in DOMAIN data
    /\ AlreadyProcessed(state, f, newest_image_mtime(data, f))

\* C20: when the images of the batch the state records change after the
\* recorded run (one added, removed or touched), the skip test no longer
\* holds for the batch, so that the next cycle that selects it processes it.
C20_ChangeForcesReprocessing ==
    [][\A f \in Labels :
         (RecordedAsIs(f) /\ ImageSet(data'[f]) # ImageSet(data[f]))
            => ~AlreadyProcessed(state', f, newest_image_mtime(data', f))]_vars

\* What choose_latest_ready_folder returns on the data root as it is, for
\* every scan order and every time from now on.
Answers ==
    {<<subs, t, choose_latest_ready_folder(data, subs, t)>> :
        subs \in Orders(DOMAIN data), t \in now..MaxTime}

\* C21, as stated: on an unchanged data root two calls return the same
\* candidate, whatever the two call times and the two scan orders.
C21_SameCandidateAnyTime ==
    \A R \in {Answers} : \A a, b \in R : a[3] = b[3]

\* The same folders are stable at the two times.
SameReady(t1, t2) ==
    \A d \in DOMAIN data : Qualifies(data, d, t1) <=> Qualifies(data, d, t2)

\* No two folders stable at time t share their newest mtime.
TieFree(t) ==
    \A d, e \in DOMAIN data :
        (d # e /\ Qualifies(data, d, t) /\ Qualifies(data, e, t))
            => NewestIn(data[d]) # NewestIn(data[e])

\* C21, amended: on an unchanged data root a call now and a call at a later
\* time, between which no batch comes of age, return the same newest mtime,
\* and the same candidate (folder, mtime, count) when they scan in the same
\* order or when no two stable batches share their newest mtime; and the call
\* changes nothing on disk.
C21_SameCandidateSameReady ==
    /\ [](\A t \in now..MaxTime : SameReady(now, t) =>
            \E free \in {TieFree(now)} :
            \A s1 \in Orders(DOMAIN data) :
            \E a \in {choose_latest_ready_folder(data, s1, now)} :
               /\ choose_latest_ready_folder(data, s1, t) = a
               /\ \A s2 \in Orders(DOMAIN data) :
                  \E b \in {choose_latest_ready_folder(data, s2, t)} :
                     /\ b[2] = a[2]
                     /\ free => b = a)
    /\ [][(wpc = "idle" /\ wpc' # wpc) => fsVars' = fsVars]_vars

\* C21, the case: the worker has just selected a folder among two stable
\* ones and a third that is not stable yet, with time left for a later call.
C21_Witness ==
    /\ wpc = "check"
    /\ now < MaxTime
    /\ \E d \in DOMAIN data \ {wFolder} : Qualifies(data, d, now)
    /\ \E d \in DOMAIN data :
         /\ Cardinality(ImagesIn(data[d])) >= MIN_IMAGES
         /\ ~Qualifies(data, d, now)

\* The images of the batch in hand whose classification raises.
FailedImages ==
    {p[1] : p \in {q \in ImagesIn(data[wFolder]) : detect_person_score(q[1]).raises}}

\* The images of the batch in hand that were classified, and positive.
PositiveImages ==
    {p[1] : p \in {q \in ImagesIn(data[wFolder]) :
                      /\ ~detect_person_score(q[1]).raises
                      /\ detect_person_score(q[1]).human}}

\* C22: when the classification of an image of the batch raises, the rows the
\* cycle appends are one for each image of the batch, ERROR for each image
\* that failed and YES or NO by the verdict for the others; the failed image
\* is not among the positive ones, and the batch is routed as positive exactly
\* when an image that was classified is positive.
C22_ErrorRowAndGoOn ==
    [][(wpc = "append" /\ wpc' # wpc /\ FailedImages # {})
         => /\ Len(Appended) = Cardinality(ImagesIn(data[wFolder]))
            /\ \A p \in ImagesIn(data[wFolder]) :
                 \E k \in 1..Len(Appended) :
                    /\ Appended[k].folder = wFolder
                    /\ Appended[k].image = p[1]
                    /\ \A j \in 1..Len(Appended) : Appended[j].image = p[1] => j = k
                    /\ Appended[k].human =
                         IF p[1] \in FailedImages THEN "ERROR"
                         ELSE IF p[1] \in PositiveImages THEN "YES" ELSE "NO"
            /\ \A k \in 1..Len(wPersons) : wPersons[k] \notin FailedImages
            /\ {wPersons[k] : k \in 1..Len(wPersons)} = PositiveImages
            /\ wHas <=> PositiveImages # {}
            /\ wpc' = IF PositiveImages # {} THEN "move" ELSE "write"]_vars

\* C22, the case: the first image of the batch failed, and the rows of a
\* negative and of a positive image follow its ERROR row; the batch goes on
\* to the move.
C22_Witness ==
    /\ wpc = "move"
    /\ wFolder = "P"
    /\ \E k \in 1..Len(log) :
         /\ log[k] = [folder |-> "P", image |-> "e.png", human |-> "ERROR"]
         /\ k + 2 <= Len(log)
         /\ log[k + 1] = [folder |-> "P", image |-> "n.jpg", human |-> "NO"]
         /\ log[k + 2] = [folder |-> "P", image |-> "p.jpg", human |-> "YES"]

\* C23: a move leaves every entry that was under the events root as it was,
\* and puts the batch, as it was, at a top-level path of the events root that
\* did not exist before.
C23_MoveAltersNothing ==
    [][(wpc = "move" /\ wpc' # wpc /\ data' # data)
         => /\ \A k \in DOMAIN events : k \in DOMAIN events' /\ events'[k] = events[k]
            /\ wDst' \notin DOMAIN events
            /\ DOMAIN events' = DOMAIN events \cup {wDst'}
            /\ events'[wDst'] = data[wFolder]]_vars

\* The cycle over batch P is at its uploads or past them, and an upload of it
\* has failed on every attempt.
GaveUpInP ==
    /\ wFolder = "P"
    /\ wpc \in {"upload", "write"}
    /\ errs >= 1

\* C24: the call that gives up on an image is followed by the call for the
\* next positive image of the batch, the uploads end only with a call for the
\* last positive image, and the helper is started for it; after an upload
\* has failed on every attempt the state is recorded for the batch, and the
\* batch that comes of age later is classified and recorded in its turn.
C24_FailedUploadGoesOn ==
    /\ [][(wpc = "upload" /\ errs' # errs)
            => IF wIdx < Len(wPersons)
               THEN wpc' = "upload" /\ wIdx' = wIdx + 1 /\ wAttempt' = 0
               ELSE wpc' = "write"]_vars
    /\ [][(wpc = "upload" /\ wpc' # wpc)
            => /\ wpc' = "write"
               /\ wIdx = Len(wPersons)
               /\ calls' = calls + 1]_vars
    /\ (GaveUpInP ~> (disk.last = "P" /\ state = disk /\ wpc = "idle"))
    /\ (errs >= 1 ~> (Logged("N") /\ disk.last = "N"))

\* C24, the case: the helper failed on every attempt for p.jpg, q.JPG was
\* uploaded after that, and the later batch N has been recorded.
C24_Witness ==
    /\ errs = 1
    /\ drive[<<"P", "p.jpg">>] = 0
    /\ drive[<<"P", "q.JPG">>] = 1
    /\ calls = UPLOAD_RETRIES + 1
    /\ Logged("N")
    /\ disk.last = "N"

\* C25: within one call of upload_image_to_drive, the wait after a failed
\* attempt that follows another failed attempt is twice the wait before it.
C25_WaitDoubles ==
    [][(wpc = "upload" /\ wAttempt >= 1 /\ calls' = calls + 1 /\ drive' = drive)
         => wWait' = 2 * wWait]_vars

\* The names of the marks in a directory tree (at any depth).
MarksIn(dir) == {p \in DOMAIN dir : Lower(Suffix(p[Len(p)])) = UPLOAD_MARK_EXT}

\* C26: no mark is under the data root; every mark under the events root is
\* at the top of a batch directory, next to an image of that directory that
\* classifies positive and for which the helper has exited 0; and a step
\* that creates a mark is a helper run that exits 0 for the image offered,
\* in the directory the batch was moved to.
C26_MarksOnlyAfterSuccess ==
    /\ [](/\ \A f \in DOMAIN data : MarksIn(data[f]) = {}
          /\ \A k \in DOMAIN events : \A p \in MarksIn(events[k]) :
               /\ Len(p) = 1
               /\ \E img \in ClassifyImages :
                    /\ p[1] = MarkName(img)
                    /\ <<img>> \in DOMAIN events[k]
                    /\ detect_person_score(img).human
                    /\ ~detect_person_score(img).raises
                    /\ drive[<<k[1], img>>] >= 1)
    /\ [][(\E k \in DOMAIN events' :
             MarksIn(events'[k]) # (IF k \in DOMAIN events THEN MarksIn(events[k]) ELSE {}))
            => /\ wpc = "upload"
               /\ DOMAIN events' = DOMAIN events
               /\ \A k \in DOMAIN events \ {wDst} : events'[k] = events[k]
               /\ MarksIn(events'[wDst]) = MarksIn(events[wDst])
                                              \cup {<<MarkName(wPersons[wIdx])>>}
               /\ drive'[<<wFolder, wPersons[wIdx]>>] = drive[<<wFolder, wPersons[wIdx]>>] + 1
               /\ calls' = calls + 1]_vars

\* C26, the case: of the two positive images of the moved batch the helper
\* failed on every attempt for one, which has no mark, and exited 0 for the
\* other, which has its mark next to it; the negative and the unreadable
\* image of the batch have none.
C26_Witness ==
    /\ wpc = "write"
    /\ wDst \in DOMAIN events
    /\ {<<"e.png">>, <<"n.jpg">>, <<"p.jpg">>, <<"q.JPG">>} \subseteq DOMAIN events[wDst]
    /\ MarksIn(events[wDst]) = {<<MarkName("q.JPG")>>}
    /\ drive[<<"P", "p.jpg">>] = 0
    /\ errs = 1

\* The batch directory of archive l is under the processed root and holds
\* each member of the archive once, at its path, and nothing else.
LandedWhole(l) ==
    /\ l \in DOMAIN data
    /\ DOMAIN data[l] = {ExtractPath(e) : e \in EntrySet(zips[l])}

\* Archive l is gone from the incoming directory and its batch has landed
\* whole, in one directory of its name.
Converged(l) ==
    /\ incoming[l] = NoFile
    /\ LandedWhole(l)

\* C27: with the receiver killed and started again inside process_one_zip,
\* a batch directory is never under the processed root other than whole, and
\* every archive in the incoming directory leads to the state where it is
\* gone and its batch has landed whole, which then lasts.
C27_RestartConverges ==
    /\ [](\A l \in Labels : l \in DOMAIN data => LandedWhole(l))
    /\ \A l \in Labels : (incoming[l] # NoFile) ~> Converged(l)
    /\ \A l \in Labels : [](Converged(l) => []Converged(l))

\* C27, the case: the receiver was killed during the extraction of N and
\* then between the rename and the removal of the archive; after it was
\* started again the archive is gone and the batch, of two members, is whole.
C27_Witness ==
    /\ crashes = MaxCrashes
    /\ StaleDir \in DOMAIN data
    /\ data[StaleDir] # EmptyDir
    /\ rlog = <<"duplicate", "N">>
    /\ Converged("N")
    /\ Cardinality(DOMAIN data["N"]) = 2

\* The cont_worker threads that are in a session: capturing, zipping or
\* uploading its archive.
Capturing == {t \in Requests : cw[t] \in {"capture", "zip", "upload"}}

\* C28: at most one cont_worker thread is in a session at any time.
C28_OneCaptureThread == Cardinality(Capturing) <= 1

====
